---- MODULE Spec2Model ----
(***************************************************************************)
(* Model of ExpressiveC++17CodingChallenge/Tool.cpp: a command line tool   *)
(* that copies a CSV file, overwriting one named column with a fixed       *)
(* value, and of the other solutions of the same challenge, which run in   *)
(* the same environment.  Text is modelled as sequences of one-character   *)
(* strings; the file system holds one input path and one (different)       *)
(* output path.  Every program has its own specification; the locals of a  *)
(* program that is not running keep their initial values.                  *)
(***************************************************************************)
EXTENDS Integers, Sequences, FiniteSets, TLC

\* ---------------------------------------------------------------- bounds
MaxFileLen == 6
MaxArgc == 6

\* ------------------------------------------------------ program constants
NUMBER_OF_PARAMETERS == 4
NOT_ENOUGH_PARAMETERS == 1
NO_CSV_INPUT_FILE == 2
NO_COLUMN_NAME == 3

\* ------------------------------------------------------------- characters
COMMA == ","
NL == "\n"
FileChars == {"a", COMMA, NL}

\* every text of at most n characters over the character set S
TextsUpTo(S, n) == UNION {[1..k -> S] : k \in 0..n}

\* the input path: absent, or a file holding any text of the bounded length
InputFiles ==
  {[exists |-> FALSE, content |-> <<>>]}
    \cup {[exists |-> TRUE, content |-> t] : t \in TextsUpTo(FileChars, MaxFileLen)}

\* content that a previous, unrelated file at the output path may hold;
\* it is longer than anything the tool writes within the bounds
StaleContent == [i \in 1..(MaxFileLen + 4) |-> "z"]

OutputFiles ==
  {[exists |-> FALSE, content |-> <<>>], [exists |-> TRUE, content |-> StaleContent]}

ColumnArgs == {<<"a">>, <<>>}
ReplacementArgs == {<<"x">>, <<>>}

\* ------------------------------------------------------- stream primitives
\* a freshly opened input stream over the text buf
open_stream(buf) == [buf |-> buf, pos |-> 1, eof |-> FALSE, fail |-> FALSE]

\* position of the first delim at or after pos, 0 when there is none
first_delim(buf, pos, delim) ==
  LET I == {k \in pos..Len(buf) : buf[k] = delim}
  IN IF I = {} THEN 0 ELSE CHOOSE k \in I : \A j \in I : k <= j

\* std::getline(stream, str, delim): the stream afterwards, the string
\* afterwards and whether the stream still converts to true
getline(stream, str, delim) ==
  IF stream.eof \/ stream.fail
  THEN [stream |-> [stream EXCEPT !.fail = TRUE], str |-> str, ok |-> FALSE]
  ELSE LET k == first_delim(stream.buf, stream.pos, delim)
       IN IF k # 0
          THEN [stream |-> [stream EXCEPT !.pos = k + 1],
                str |-> SubSeq(stream.buf, stream.pos, k - 1),
                ok |-> TRUE]
          ELSE IF stream.pos <= Len(stream.buf)
          THEN [stream |-> [stream EXCEPT !.pos = Len(stream.buf) + 1, !.eof = TRUE],
                str |-> SubSeq(stream.buf, stream.pos, Len(stream.buf)),
                ok |-> TRUE]
          ELSE [stream |-> [stream EXCEPT !.eof = TRUE, !.fail = TRUE],
                str |-> <<>>,
                ok |-> FALSE]

\* ------------------------------------------------------------ namespace tool
RECURSIVE split_loop(_, _, _)
split_loop(line_stream, cell, result) ==
  LET \* r is bound to the value std::getline returned, which every use shares
      body[r \in {getline(line_stream, cell, COMMA)}] ==
        IF r.ok THEN split_loop(r.stream, r.str, Append(result, r.str)) ELSE result
  IN body[getline(line_stream, cell, COMMA)]

split_line_into_tokens(line) == split_loop(open_stream(line), <<>>, <<>>)

RECURSIVE merge_loop(_, _)
merge_loop(tokens, i) ==
  IF i > Len(tokens) THEN <<>> ELSE tokens[i] \o <<COMMA>> \o merge_loop(tokens, i + 1)

merge_tokens_into_line(tokens) ==
  LET line == merge_loop(tokens, 1)
  IN IF line # <<>> THEN SubSeq(line, 1, Len(line) - 1) ELSE line

\* find with the not-found case one short of the end iterator
find_short_of_end(column_names, wanted) ==
  LET I == {k \in 1..Len(column_names) : column_names[k] = wanted}
  IN IF I = {} THEN Len(column_names) - 1
     ELSE (CHOOSE k \in I : \A j \in I : k <= j) - 1

\* find that keeps the last element equal to wanted
find_last(column_names, wanted) ==
  LET I == {k \in 1..Len(column_names) : column_names[k] = wanted}
  IN IF I = {} THEN Len(column_names) ELSE (CHOOSE k \in I : \A j \in I : k >= j) - 1

\* std::find over the column names: zero-based offset of the first element
\* equal to wanted, or the size (the end iterator) when there is none
find(column_names, wanted) ==
  LET I == {k \in 1..Len(column_names) : column_names[k] = wanted}
  IN IF I = {} THEN Len(column_names) ELSE (CHOOSE k \in I : \A j \in I : k <= j) - 1

\* ------------------------------------------------------------------- state
VARIABLES
  argc, wanted_column, wanted_value,   \* the command line
  input_path, output_path,             \* the two files: [exists, content]
  pc, exit_code,                       \* position in main, -1 while running
  input_file,                          \* the std::ifstream
  column_line, column_names, number_of_columns, column_position,
  line, tokens,
  cerr, cout,                          \* what was printed, one entry per message
  run,                                 \* "first" or "second" invocation
  output_before,                       \* the output path when the run started
  output_opened,                       \* the run constructed the std::ofstream
  lines_read,                          \* data lines the run has read, in order
  first_result,                        \* exit code and output of the first run
  sol01, sol02, sol03, sol04, sol05, sol06, sol07   \* the locals of the other solutions

\* the locals of the other solutions, one record per program
solutions == <<sol01, sol02, sol03, sol04, sol05, sol06, sol07>>

vars == <<argc, wanted_column, wanted_value, input_path, output_path, pc, exit_code,
          input_file, column_line, column_names, number_of_columns, column_position,
          line, tokens, cerr, cout, run, output_before, output_opened, lines_read,
          first_result, solutions>>

cmdline == <<argc, wanted_column, wanted_value>>
locals == <<column_line, column_names, number_of_columns, column_position, line, tokens>>
history == <<run, output_before, first_result>>

AbsentFile == [exists |-> FALSE, content |-> <<>>]
NoResult == [exit_code |-> -1, output |-> AbsentFile, before |-> AbsentFile]

\* solution 01: in_file, and the locals of get_target_column and do_work;
\* row_text holds the characters do_work wrote for the current row
Sol01Fresh ==
  [in_file |-> open_stream(<<>>), first_line |-> <<>>, target_index |-> -1,
   buffer |-> <<>>, tokens |-> <<>>, row_text |-> <<>>]

\* solution 02: inputFile and main's line, hIndex (an optional), header and
\* fields; row_text holds the characters written for the current row
Sol02Fresh ==
  [inputFile |-> open_stream(<<>>), line |-> <<>>,
   hIndex |-> [has_value |-> FALSE, value |-> 0], header |-> <<>>,
   fields |-> <<>>, row_text |-> <<>>]

\* solution 03: the static csvin, buffer and fields, and main's locals
Sol03Fresh ==
  [csvin |-> open_stream(<<>>), buffer |-> <<>>, fields |-> <<>>,
   total_fields |-> 0, nfield |-> 0]

\* solution 04: main's inpfile, header, index and line
Sol04Fresh ==
  [inpfile |-> open_stream(<<>>), header |-> <<>>, index |-> -1, line |-> <<>>]

\* solution 05: ifs and the members of CsvChanger (m_actions holds the name
\* of the function at each position); emitted holds the items that
\* output_modified_csv wrote for the last data line
Sol05Fresh ==
  [ifs |-> open_stream(<<>>), m_titles |-> <<>>, m_fields |-> <<>>,
   m_actions |-> <<>>, data_line |-> <<>>, data_fields |-> <<>>, emitted |-> <<>>]

\* solution 06: ifs, the members of csv_io and main's N
Sol06Fresh ==
  [ifs |-> open_stream(<<>>), readbuf |-> <<>>, cols |-> <<>>, N |-> 0]

\* solution 07: the csv stream, convert's headerRow and column_index, the
\* word the lambda received, the row it returned and the infix iterator's flag
Sol07Fresh ==
  [csv |-> open_stream(<<>>), headerRow |-> <<>>, column_index |-> 0,
   view |-> <<>>, row |-> <<>>, first |-> TRUE]

\* the locals of main before main has run
FreshLocals ==
  /\ pc = "start"
  /\ exit_code = -1
  /\ input_file = open_stream(<<>>)
  /\ column_line = <<>>
  /\ column_names = <<>>
  /\ number_of_columns = 0
  /\ column_position = 0
  /\ line = <<>>
  /\ tokens = <<>>
  /\ cerr = <<>>
  /\ cout = <<>>
  /\ output_opened = FALSE
  /\ lines_read = <<>>

ToolInit ==
  /\ argc \in 1..MaxArgc
  /\ wanted_column \in ColumnArgs
  /\ wanted_value \in ReplacementArgs
  /\ input_path \in InputFiles
  /\ output_path \in OutputFiles
  /\ FreshLocals
  /\ run = "first"
  /\ output_before = output_path
  /\ first_result = NoResult
  /\ sol01 = Sol01Fresh
  /\ sol02 = Sol02Fresh
  /\ sol03 = Sol03Fresh
  /\ sol04 = Sol04Fresh
  /\ sol05 = Sol05Fresh
  /\ sol06 = Sol06Fresh
  /\ sol07 = Sol07Fresh

\* ------------------------------------------------------------------- main
\* CheckArgc that only rejects too few arguments
CheckArgcTooFewOnly ==
  /\ pc = "start"
  /\ IF argc < NUMBER_OF_PARAMETERS + 1
     THEN pc' = "done" /\ exit_code' = NOT_ENOUGH_PARAMETERS
     ELSE pc' = "check_input" /\ UNCHANGED exit_code
  /\ UNCHANGED <<solutions, cmdline, input_path, output_path, input_file, locals, cerr, cout,
                 history, output_opened, lines_read>>

\* if (argc != NUMBER_OF_PARAMETERS + 1) return NOT_ENOUGH_PARAMETERS;
CheckArgc ==
  /\ pc = "start"
  /\ IF argc # NUMBER_OF_PARAMETERS + 1
     THEN pc' = "done" /\ exit_code' = NOT_ENOUGH_PARAMETERS
     ELSE pc' = "check_input" /\ UNCHANGED exit_code
  /\ UNCHANGED <<solutions, cmdline, input_path, output_path, input_file, locals, cerr, cout,
                 history, output_opened, lines_read>>

\* if (!fs::exists(input_filename)) { cerr << ...; return NO_CSV_INPUT_FILE; }
CheckInputExists ==
  /\ pc = "check_input"
  /\ IF ~input_path.exists
     THEN /\ cerr' = Append(cerr, "input file missing\n")
          /\ pc' = "done"
          /\ exit_code' = NO_CSV_INPUT_FILE
     ELSE /\ pc' = "read_header"
          /\ UNCHANGED <<cerr, exit_code>>
  /\ UNCHANGED <<solutions, cmdline, input_path, output_path, input_file, locals, cout,
                 history, output_opened, lines_read>>

\* ReadHeader with the output stream constructed next to the input stream
ReadHeaderOpensOutput ==
  /\ pc = "read_header"
  /\ LET r == getline(open_stream(input_path.content), <<>>, NL)
     IN /\ input_file' = r.stream
        /\ column_line' = r.str
        /\ column_names' = split_line_into_tokens(r.str)
        /\ number_of_columns' = Len(split_line_into_tokens(r.str))
  /\ output_path' = [exists |-> TRUE, content |-> <<>>]
  /\ output_opened' = TRUE
  /\ pc' = "find_column"
  /\ UNCHANGED <<solutions, cmdline, input_path, exit_code, column_position, line,
                 tokens, cerr, cout, history, lines_read>>

\* open the input, read the first line and split it into the column names
ReadHeader ==
  /\ pc = "read_header"
  /\ LET r == getline(open_stream(input_path.content), <<>>, NL)
     IN /\ input_file' = r.stream
        /\ column_line' = r.str
        /\ column_names' = split_line_into_tokens(r.str)
        /\ number_of_columns' = Len(split_line_into_tokens(r.str))
  /\ pc' = "find_column"
  /\ UNCHANGED <<solutions, cmdline, input_path, output_path, exit_code, column_position, line,
                 tokens, cerr, cout, history, output_opened, lines_read>>

\* FindColumn going on with the position std::find returned, found or not
FindColumnUnchecked ==
  /\ pc = "find_column"
  /\ column_position' = find(column_names, wanted_column)
  /\ pc' = "open_output"
  /\ UNCHANGED <<cerr, exit_code>>
  /\ UNCHANGED <<solutions, cmdline, input_path, output_path, input_file, column_line, column_names,
                 number_of_columns, line, tokens, cout, history, output_opened,
                 lines_read>>

\* std::find of the wanted column; not found is the NO_COLUMN_NAME exit
FindColumn ==
  /\ pc = "find_column"
  /\ LET found_column == find(column_names, wanted_column)
     IN IF found_column = Len(column_names)
        THEN /\ cerr' = Append(cerr, "column name doesn't exists in the input file\n")
             /\ pc' = "done"
             /\ exit_code' = NO_COLUMN_NAME
             /\ UNCHANGED column_position
        ELSE /\ column_position' = found_column
             /\ pc' = "open_output"
             /\ UNCHANGED <<cerr, exit_code>>
  /\ UNCHANGED <<solutions, cmdline, input_path, output_path, input_file, column_line, column_names,
                 number_of_columns, line, tokens, cout, history, output_opened,
                 lines_read>>

\* OpenOutput writing the header rebuilt from the column names
OpenOutputRebuiltHeader ==
  /\ pc = "open_output"
  /\ output_path' = [exists |-> TRUE,
                     content |-> merge_tokens_into_line(column_names) \o <<NL>>]
  /\ output_opened' = TRUE
  /\ pc' = "loop"
  /\ UNCHANGED <<solutions, cmdline, input_path, exit_code, input_file, locals, cerr, cout,
                 history, lines_read>>

\* OpenOutput with the stream opened in append mode
OpenOutputAppend ==
  /\ pc = "open_output"
  /\ output_path' = [exists |-> TRUE,
                     content |-> output_path.content \o column_line \o <<NL>>]
  /\ output_opened' = TRUE
  /\ pc' = "loop"
  /\ UNCHANGED <<solutions, cmdline, input_path, exit_code, input_file, locals, cerr, cout,
                 history, lines_read>>

\* std::ofstream output_file(output_filename): creates or truncates the file;
\* then the header line and a newline are written
OpenOutput ==
  /\ pc = "open_output"
  /\ output_path' = [exists |-> TRUE, content |-> column_line \o <<NL>>]
  /\ output_opened' = TRUE
  /\ pc' = "loop"
  /\ UNCHANGED <<solutions, cmdline, input_path, exit_code, input_file, locals, cerr, cout,
                 history, lines_read>>

\* ReadLine that also runs while the line read before is still to be written
ReadLineEager ==
  /\ pc \in {"loop", "body"}
  /\ LET r == getline(input_file, line, NL)
     IN /\ input_file' = r.stream
        /\ line' = r.str
        /\ IF r.ok
           THEN /\ tokens' = split_line_into_tokens(r.str)
                /\ lines_read' = Append(lines_read, r.str)
                /\ pc' = "body"
                /\ UNCHANGED exit_code
           ELSE /\ pc' = "done"
                /\ exit_code' = 0
                /\ UNCHANGED <<tokens, lines_read>>
  /\ UNCHANGED <<solutions, cmdline, input_path, output_path, column_line, column_names,
                 number_of_columns, column_position, cerr, cout, history, output_opened>>

\* ReadLine whose loop does not end when std::getline fails
ReadLineNeverEnds ==
  /\ pc = "loop"
  /\ LET r == getline(input_file, line, NL)
     IN /\ input_file' = (IF r.ok THEN r.stream ELSE input_file)
        /\ line' = (IF r.ok THEN r.str ELSE line)
        /\ IF r.ok
           THEN /\ tokens' = split_line_into_tokens(r.str)
                /\ lines_read' = Append(lines_read, r.str)
                /\ pc' = "body"
                /\ UNCHANGED exit_code
           ELSE UNCHANGED <<pc, exit_code, tokens, lines_read>>
  /\ UNCHANGED <<solutions, cmdline, input_path, output_path, column_line, column_names,
                 number_of_columns, column_position, cerr, cout, history, output_opened>>

\* while (std::getline(input_file, line)): end of input falls off main (exit 0)
ReadLine ==
  /\ pc = "loop"
  /\ LET r == getline(input_file, line, NL)
     IN /\ input_file' = r.stream
        /\ line' = r.str
        /\ IF r.ok
           THEN /\ tokens' = split_line_into_tokens(r.str)
                /\ lines_read' = Append(lines_read, r.str)
                /\ pc' = "body"
                /\ UNCHANGED exit_code
           ELSE /\ pc' = "done"
                /\ exit_code' = 0
                /\ UNCHANGED <<tokens, lines_read>>
  /\ UNCHANGED <<solutions, cmdline, input_path, output_path, column_line, column_names,
                 number_of_columns, column_position, cerr, cout, history, output_opened>>

\* ProcessLine accepting every row that has at least as many tokens as the header
ProcessLineAtLeast ==
  /\ pc = "body"
  /\ IF Len(tokens) >= number_of_columns
     THEN /\ tokens' = [tokens EXCEPT ![column_position + 1] = wanted_value]
          /\ output_path' = [output_path EXCEPT !.content =
               @ \o merge_tokens_into_line([tokens EXCEPT ![column_position + 1] = wanted_value])
                 \o <<NL>>]
          /\ UNCHANGED cout
     ELSE /\ cout' = Append(cout, <<"skipping line: ", merge_tokens_into_line(tokens)>>)
          /\ UNCHANGED <<tokens, output_path>>
  /\ pc' = "loop"
  /\ UNCHANGED <<solutions, cmdline, input_path, exit_code, input_file, column_line, column_names,
                 number_of_columns, column_position, line, cerr, history,
                 output_opened, lines_read>>

\* the loop body: overwrite the column and write the row, or skip the row
ProcessLine ==
  /\ pc = "body"
  /\ IF Len(tokens) = number_of_columns
     THEN /\ tokens' = [tokens EXCEPT ![column_position + 1] = wanted_value]
          /\ output_path' = [output_path EXCEPT !.content =
               @ \o merge_tokens_into_line([tokens EXCEPT ![column_position + 1] = wanted_value])
                 \o <<NL>>]
          /\ UNCHANGED cout
     ELSE /\ cout' = Append(cout, <<"skipping line: ", merge_tokens_into_line(tokens)>>)
          /\ UNCHANGED <<tokens, output_path>>
  /\ pc' = "loop"
  /\ UNCHANGED <<solutions, cmdline, input_path, exit_code, input_file, column_line, column_names,
                 number_of_columns, column_position, line, cerr, history,
                 output_opened, lines_read>>

\* ------------------------------------------------------------ environment
\* the tool is invoked a second time with the same command line on the same
\* input; in between, the output path was left alone, removed or replaced
Rerun ==
  /\ pc = "done"
  /\ run = "first"
  /\ run' = "second"
  /\ first_result' = [exit_code |-> exit_code, output |-> output_path,
                       before |-> output_before]
  /\ output_path' \in OutputFiles \cup {output_path}
  /\ output_before' = output_path'
  /\ pc' = "start"
  /\ exit_code' = -1
  /\ input_file' = open_stream(<<>>)
  /\ column_line' = <<>>
  /\ column_names' = <<>>
  /\ number_of_columns' = 0
  /\ column_position' = 0
  /\ line' = <<>>
  /\ tokens' = <<>>
  /\ cerr' = <<>>
  /\ cout' = <<>>
  /\ output_opened' = FALSE
  /\ lines_read' = <<>>
  /\ UNCHANGED <<solutions, cmdline, input_path>>

ToolNext ==
  \/ CheckArgc
  \/ CheckInputExists
  \/ ReadHeader
  \/ FindColumn
  \/ OpenOutput
  \/ ReadLine
  \/ ProcessLine
  \/ Rerun

SpecTool == ToolInit /\ [][ToolNext]_vars

\* the steps of main alone: one invocation, no environment
MainNext ==
  \/ CheckArgc
  \/ CheckInputExists
  \/ ReadHeader
  \/ FindColumn
  \/ OpenOutput
  \/ ReadLine
  \/ ProcessLine

\* main is one thread of one process that the operating system keeps running:
\* a step that is possible is eventually taken
FairSpecTool == ToolInit /\ [][MainNext]_vars /\ WF_vars(MainNext)

\* the tool is invoked again on the file a successful run wrote, with the
\* same column name and replacement value and another output path
RerunOnOutput ==
  /\ pc = "done"
  /\ exit_code = 0
  /\ run = "first"
  /\ run' = "on_output"
  /\ first_result' = [exit_code |-> exit_code, output |-> output_path,
                       before |-> output_before]
  /\ input_path' = output_path
  /\ output_path' \in OutputFiles
  /\ output_before' = output_path'
  /\ pc' = "start"
  /\ exit_code' = -1
  /\ input_file' = open_stream(<<>>)
  /\ column_line' = <<>>
  /\ column_names' = <<>>
  /\ number_of_columns' = 0
  /\ column_position' = 0
  /\ line' = <<>>
  /\ tokens' = <<>>
  /\ cerr' = <<>>
  /\ cout' = <<>>
  /\ output_opened' = FALSE
  /\ lines_read' = <<>>
  /\ UNCHANGED <<solutions, cmdline>>

ToolOnOutputNext ==
  \/ CheckArgc
  \/ CheckInputExists
  \/ ReadHeader
  \/ FindColumn
  \/ OpenOutput
  \/ ReadLine
  \/ ProcessLine
  \/ RerunOnOutput

SpecToolOnOutput == ToolInit /\ [][ToolOnOutputNext]_vars

\* ============================================================ solution 01
\* exit status of a process ended by abort() (128 + SIGABRT)
ABORT_STATUS == 134
\* exit status of a process ended by an invalid memory access (128 + SIGSEGV)
SEGV_STATUS == 139

\* what solution 01 never changes
frame01 ==
  <<cmdline, input_path, input_file, locals, cerr, run, output_before, first_result,
    sol02, sol03, sol04, sol05, sol06, sol07>>

\* split_string: the getline loop over a stringstream of the input
RECURSIVE split_string_loop(_, _, _, _)
split_string_loop(ss, buffer, result, delimiter) ==
  LET r == getline(ss, buffer, delimiter)
  IN IF r.ok THEN split_string_loop(r.stream, r.str, Append(result, r.str), delimiter)
     ELSE result

split_string(input, delimiter) == split_string_loop(open_stream(input), <<>>, <<>>, delimiter)

\* the range-for of do_work: each token, then a newline when the token
\* compares equal to tokens.back() and the delimiter otherwise
RECURSIVE write_tokens(_, _, _)
write_tokens(tokens_, i, delimiter) ==
  IF i > Len(tokens_) THEN <<>>
  ELSE tokens_[i]
         \o <<(IF tokens_[i] = tokens_[Len(tokens_)] THEN NL ELSE delimiter)>>
         \o write_tokens(tokens_, i + 1, delimiter)

\* catch (runtime_error&): e.what(), then usage_terminate prints the usage and aborts
S01_Throw(what) ==
  /\ cout' = cout \o <<what, "Usage">>
  /\ pc' = "done"
  /\ exit_code' = ABORT_STATUS

\* if (argc != 5) throw runtime_error("Bad arguments")
S01_CheckArgc ==
  /\ pc = "start"
  /\ IF argc # 5
     THEN S01_Throw("Bad arguments")
     ELSE pc' = "s01_get_file_handlers" /\ UNCHANGED <<cout, exit_code>>
  /\ UNCHANGED <<frame01, output_path, output_opened, lines_read, sol01>>

\* get_file_handlers: the input stream, then the output stream with ios::trunc
S01_GetFileHandlers ==
  /\ pc = "s01_get_file_handlers"
  /\ IF ~input_path.exists
     THEN /\ S01_Throw("Unable to open input file")
          /\ UNCHANGED <<output_path, output_opened, sol01>>
     ELSE /\ sol01' = [sol01 EXCEPT !.in_file = open_stream(input_path.content)]
          /\ output_path' = [exists |-> TRUE, content |-> <<>>]
          /\ output_opened' = TRUE
          /\ pc' = "s01_get_target_column"
          /\ UNCHANGED <<cout, exit_code>>
  /\ UNCHANGED <<frame01, lines_read>>

\* get_target_column, and main's test of the optional it returns
S01_GetTargetColumn ==
  /\ pc = "s01_get_target_column"
  /\ LET r == getline(sol01.in_file, <<>>, NL)
         \* input.seekg(0) clears eofbit and rewinds
         rewound == [r.stream EXCEPT !.pos = 1, !.eof = FALSE]
         tokens_ == split_string(r.str, COMMA)
         it == find(tokens_, wanted_column)
     IN IF Len(r.str) = 0
        THEN /\ S01_Throw("Input file missing")
             /\ sol01' = [sol01 EXCEPT !.in_file = r.stream, !.first_line = r.str]
        ELSE IF it = Len(tokens_)
        THEN /\ S01_Throw("Column name doesn't exist in the input file")
             /\ sol01' = [sol01 EXCEPT !.in_file = rewound, !.first_line = r.str]
        ELSE /\ sol01' = [sol01 EXCEPT !.in_file = rewound, !.first_line = r.str,
                                       !.target_index = it]
             /\ pc' = "s01_do_work"
             /\ UNCHANGED <<cout, exit_code>>
  /\ UNCHANGED <<frame01, output_path, output_opened, lines_read>>

\* do_work: the header line is read again and written, followed by endl
S01_WriteHeader ==
  /\ pc = "s01_do_work"
  /\ LET r == getline(sol01.in_file, sol01.buffer, NL)
     IN /\ sol01' = [sol01 EXCEPT !.in_file = r.stream, !.buffer = r.str]
        /\ output_path' = [output_path EXCEPT !.content = @ \o r.str \o <<NL>>]
  /\ pc' = "s01_loop"
  /\ UNCHANGED <<frame01, cout, exit_code, output_opened, lines_read>>

\* while (getline(input, buffer)): split the row; at end of input main returns 0
S01_ReadRow ==
  /\ pc = "s01_loop"
  /\ LET r == getline(sol01.in_file, sol01.buffer, NL)
     IN IF r.ok
        THEN /\ sol01' = [sol01 EXCEPT !.in_file = r.stream, !.buffer = r.str,
                                       !.tokens = split_string(r.str, COMMA),
                                       !.row_text = <<>>]
             /\ lines_read' = Append(lines_read, r.str)
             /\ pc' = "s01_row"
             /\ UNCHANGED exit_code
        ELSE /\ sol01' = [sol01 EXCEPT !.in_file = r.stream, !.buffer = r.str]
             /\ pc' = "done"
             /\ exit_code' = 0
             /\ UNCHANGED lines_read
  /\ UNCHANGED <<frame01, output_path, cout, output_opened>>

\* the text that the range-for of do_work writes for the tokens
S01_RowText(tokens_) == write_tokens(tokens_, 1, COMMA)

\* tokens[target_index] = new_value and the range-for that writes the row.
\* With target_index >= tokens.size() the assignment is outside the vector
\* (undefined behaviour): the process is killed, or it carries on with the
\* tokens as they were.
S01_WriteRow ==
  /\ pc = "s01_row"
  /\ \/ /\ sol01.target_index < Len(sol01.tokens)
        /\ LET replaced == [sol01.tokens EXCEPT ![sol01.target_index + 1] = wanted_value]
           IN /\ sol01' = [sol01 EXCEPT !.tokens = replaced,
                                        !.row_text = S01_RowText(replaced)]
              /\ output_path' = [output_path EXCEPT !.content = @ \o S01_RowText(replaced)]
        /\ pc' = "s01_loop"
        /\ UNCHANGED exit_code
     \/ /\ sol01.target_index >= Len(sol01.tokens)
        /\ pc' = "done"
        /\ exit_code' = SEGV_STATUS
        /\ UNCHANGED <<sol01, output_path>>
     \/ /\ sol01.target_index >= Len(sol01.tokens)
        /\ sol01' = [sol01 EXCEPT !.row_text = S01_RowText(sol01.tokens)]
        /\ output_path' = [output_path EXCEPT !.content = @ \o S01_RowText(sol01.tokens)]
        /\ pc' = "s01_loop"
        /\ UNCHANGED exit_code
  /\ UNCHANGED <<frame01, cout, output_opened, lines_read>>

Sol01Next ==
  \/ S01_CheckArgc
  \/ S01_GetFileHandlers
  \/ S01_GetTargetColumn
  \/ S01_WriteHeader
  \/ S01_ReadRow
  \/ S01_WriteRow

SpecSol01 == ToolInit /\ [][Sol01Next]_vars

\* ============================================================ solution 03
\* what solution 03 never changes
frame03 ==
  <<cmdline, input_path, input_file, locals, cout, run, output_before, first_result,
    sol01, sol02, sol04, sol05, sol06, sol07>>

\* parseCSV_loop adding no field for the empty rest after a last comma
RECURSIVE parseCSV_loop_no_rest(_, _, _, _)
parseCSV_loop_no_rest(line_, cur, prev, fields) ==
  IF cur > Len(line_)
  THEN IF prev > Len(line_) /\ fields # <<>> THEN fields
       ELSE Append(fields, SubSeq(line_, prev, Len(line_)))
  ELSE IF line_[cur] = COMMA
       THEN parseCSV_loop_no_rest(line_, cur + 1, cur + 1,
                                  Append(fields, SubSeq(line_, prev, cur - 1)))
       ELSE parseCSV_loop_no_rest(line_, cur + 1, prev, fields)

\* parseCSV: one field per comma and one for the rest of the line; cur and
\* prev are positions in the line
RECURSIVE parseCSV_loop(_, _, _, _)
parseCSV_loop(line_, cur, prev, fields) ==
  IF cur > Len(line_) THEN Append(fields, SubSeq(line_, prev, Len(line_)))
  ELSE IF line_[cur] = COMMA
       THEN parseCSV_loop(line_, cur + 1, cur + 1, Append(fields, SubSeq(line_, prev, cur - 1)))
       ELSE parseCSV_loop(line_, cur + 1, prev, fields)

parseCSV(line_) == parseCSV_loop(line_, 1, 1, <<>>)

\* writeCSV: fields[i] and a comma for i < size - 1, then fields[i] and a
\* newline (applied to the non-empty vectors that parseCSV returns)
RECURSIVE writeCSV_loop(_, _)
writeCSV_loop(fields, i) ==
  IF i < Len(fields) - 1
  THEN fields[i + 1] \o <<COMMA>> \o writeCSV_loop(fields, i + 1)
  ELSE fields[i + 1] \o <<NL>>

writeCSV(fields) == writeCSV_loop(fields, 0)

\* the status that ensure passes to exit()
ENSURE_EXIT_STATUS == 0

\* ensure with a false condition: the message on std::cerr, then exit
S03_EnsureFailed(msg) ==
  /\ cerr' = Append(cerr, msg)
  /\ pc' = "done"
  /\ exit_code' = ENSURE_EXIT_STATUS

\* ensure(argc == 5, "usage: ", ...)
S03_CheckArgc ==
  /\ pc = "start"
  /\ IF argc # 5
     THEN S03_EnsureFailed("usage: ")
     ELSE pc' = "s03_open_input" /\ UNCHANGED <<cerr, exit_code>>
  /\ UNCHANGED <<frame03, output_path, output_opened, lines_read, sol03>>

\* csvin.open(infile); ensure(!csvin.fail(), ": cannot open input file ")
S03_OpenInput ==
  /\ pc = "s03_open_input"
  /\ IF ~input_path.exists
     THEN S03_EnsureFailed(": cannot open input file ") /\ UNCHANGED sol03
     ELSE /\ sol03' = [sol03 EXCEPT !.csvin = open_stream(input_path.content)]
          /\ pc' = "s03_read_header"
          /\ UNCHANGED <<cerr, exit_code>>
  /\ UNCHANGED <<frame03, output_path, output_opened, lines_read>>

\* getline(csvin, buffer); ensure(!csvin.fail(), ": input file is empty.");
\* parseCSV; find the column; ensure(col != fields.end(), ": column name ")
S03_ReadHeader ==
  /\ pc = "s03_read_header"
  /\ LET r == getline(sol03.csvin, sol03.buffer, NL)
         fields_ == parseCSV(r.str)
         col == find(fields_, wanted_column)
     IN IF r.stream.fail
        THEN /\ S03_EnsureFailed(": input file is empty.")
             /\ sol03' = [sol03 EXCEPT !.csvin = r.stream, !.buffer = r.str]
        ELSE IF col = Len(fields_)
        THEN /\ S03_EnsureFailed(": column name ")
             /\ sol03' = [sol03 EXCEPT !.csvin = r.stream, !.buffer = r.str,
                                       !.fields = fields_, !.total_fields = Len(fields_)]
        ELSE /\ sol03' = [sol03 EXCEPT !.csvin = r.stream, !.buffer = r.str,
                                       !.fields = fields_, !.total_fields = Len(fields_),
                                       !.nfield = col]
             /\ pc' = "s03_open_output"
             /\ UNCHANGED <<cerr, exit_code>>
  /\ UNCHANGED <<frame03, output_path, output_opened, lines_read>>

\* csvout.open(outfile); ensure(!csvout.fail(), ": cannot open output file ");
\* writeCSV of the header fields.  Whether the path can be opened for
\* writing is the environment's choice.
S03_OpenOutput ==
  /\ pc = "s03_open_output"
  /\ \E writable \in BOOLEAN :
       IF ~writable
       THEN /\ S03_EnsureFailed(": cannot open output file ")
            /\ UNCHANGED <<output_path, output_opened>>
       ELSE /\ output_path' = [exists |-> TRUE, content |-> writeCSV(sol03.fields)]
            /\ output_opened' = TRUE
            /\ pc' = "s03_loop"
            /\ UNCHANGED <<cerr, exit_code>>
  /\ UNCHANGED <<frame03, lines_read, sol03>>

\* while (getline(csvin, buffer)) parseCSV(buffer, fields); at the end of the
\* input main returns (status 0)
S03_ReadRow ==
  /\ pc = "s03_loop"
  /\ LET r == getline(sol03.csvin, sol03.buffer, NL)
     IN IF r.ok
        THEN /\ sol03' = [sol03 EXCEPT !.csvin = r.stream, !.buffer = r.str,
                                       !.fields = parseCSV(r.str)]
             /\ lines_read' = Append(lines_read, r.str)
             /\ pc' = "s03_row"
             /\ UNCHANGED exit_code
        ELSE /\ sol03' = [sol03 EXCEPT !.csvin = r.stream, !.buffer = r.str]
             /\ pc' = "done"
             /\ exit_code' = 0
             /\ UNCHANGED lines_read
  /\ UNCHANGED <<frame03, output_path, cerr, output_opened>>

\* S03_WriteRow passing over a row of another field count instead of stopping
S03_WriteRowSkips ==
  /\ pc = "s03_row"
  /\ IF Len(sol03.fields) # sol03.total_fields
     THEN /\ pc' = "s03_loop"
          /\ UNCHANGED <<output_path, sol03, cerr, exit_code>>
     ELSE /\ sol03' = [sol03 EXCEPT !.fields[sol03.nfield + 1] = wanted_value]
          /\ output_path' = [output_path EXCEPT !.content =
               @ \o writeCSV([sol03.fields EXCEPT ![sol03.nfield + 1] = wanted_value])]
          /\ pc' = "s03_loop"
          /\ UNCHANGED <<cerr, exit_code>>
  /\ UNCHANGED <<frame03, output_opened, lines_read>>

\* ensure(fields.size() == total_fields, ": error in csv file.");
\* fields[nfield] = replaceTo; writeCSV(csvout, fields)
S03_WriteRow ==
  /\ pc = "s03_row"
  /\ IF Len(sol03.fields) # sol03.total_fields
     THEN /\ S03_EnsureFailed(": error in csv file.")
          /\ UNCHANGED <<output_path, sol03>>
     ELSE /\ sol03' = [sol03 EXCEPT !.fields[sol03.nfield + 1] = wanted_value]
          /\ output_path' = [output_path EXCEPT !.content =
               @ \o writeCSV([sol03.fields EXCEPT ![sol03.nfield + 1] = wanted_value])]
          /\ pc' = "s03_loop"
          /\ UNCHANGED <<cerr, exit_code>>
  /\ UNCHANGED <<frame03, output_opened, lines_read>>

Sol03Next ==
  \/ S03_CheckArgc
  \/ S03_OpenInput
  \/ S03_ReadHeader
  \/ S03_OpenOutput
  \/ S03_ReadRow
  \/ S03_WriteRow

SpecSol03 == ToolInit /\ [][Sol03Next]_vars

\* ============================================================ solution 04
\* what solution 04 never changes
frame04 ==
  <<cmdline, input_path, input_file, locals, run, output_before, first_result,
    sol01, sol02, sol03, sol05, sol06, sol07>>

\* the exit status of "return -1" from main
RETURN_MINUS_ONE == 255

\* ParseLine: the viewed line and the iterators beg and cur as offsets from
\* line_view.begin()
ParseLine(line_) == [line_view |-> line_, beg |-> 0, cur |-> 0]

hasNext(p) == p.cur # Len(p.line_view)

\* ParseLine::getWord: the word and the ParseLine afterwards
getWord(p, token) ==
  LET k == first_delim(p.line_view, p.cur + 1, token)
      found == IF k = 0 THEN Len(p.line_view) ELSE k - 1
      word == SubSeq(p.line_view, p.beg + 1, found)
  IN IF found # Len(p.line_view)
     THEN [word |-> word, p |-> [p EXCEPT !.cur = found + 1, !.beg = found + 1]]
     ELSE [word |-> word, p |-> [p EXCEPT !.cur = found]]

currOffSet(p) == p.cur

\* the while loop of getIndexOfColumnName: the index of the first word equal
\* to column_name, -1 when the words run out
RECURSIVE getIndexOfColumnName_loop(_, _, _)
getIndexOfColumnName_loop(parseline, column_name, index) ==
  IF hasNext(parseline)
  THEN LET w == getWord(parseline, COMMA)
       IN IF w.word = column_name THEN index
          ELSE getIndexOfColumnName_loop(w.p, column_name, index + 1)
  ELSE -1

\* the while loop of getFieldValueAtIndex: the start offset and the word at
\* index, or thrown when the line has no word at index
RECURSIVE getFieldValueAtIndex_loop(_, _, _, _)
getFieldValueAtIndex_loop(line_, parseLine, currIndex, index) ==
  IF hasNext(parseLine)
  THEN LET w == getWord(parseLine, COMMA)
           offset == currOffSet(w.p)
       IN IF currIndex + 1 = index
          THEN [thrown |-> FALSE,
                offsetIndex |-> IF offset = Len(line_) THEN offset - Len(w.word)
                                ELSE offset - Len(w.word) - 1,
                word |-> w.word]
          ELSE getFieldValueAtIndex_loop(line_, w.p, currIndex + 1, index)
  ELSE [thrown |-> TRUE, offsetIndex |-> 0, word |-> <<>>]

getFieldValueAtIndex(line_, index) ==
  getFieldValueAtIndex_loop(line_, ParseLine(line_), -1, index)

\* std::string::replace(pos, len, str) for pos <= size
string_replace(str, pos, len, with) ==
  LET n == IF len < Len(str) - pos THEN len ELSE Len(str) - pos
  IN SubSeq(str, 1, pos) \o with \o SubSeq(str, pos + n + 1, Len(str))

\* if (argc != 5) { usage(std::cout); return -1; }
S04_CheckArgc ==
  /\ pc = "start"
  /\ IF argc # 5
     THEN /\ cout' = Append(cout, "Usage:Tool.exe input.csv <ColumnName> <Replacement String> output.csv\n")
          /\ pc' = "done"
          /\ exit_code' = RETURN_MINUS_ONE
     ELSE pc' = "s04_open_input" /\ UNCHANGED <<cout, exit_code>>
  /\ UNCHANGED <<frame04, cerr, output_path, output_opened, lines_read, sol04>>

\* std::ifstream inpfile(...); if (!inpfile.is_open()) return -1
S04_OpenInput ==
  /\ pc = "s04_open_input"
  /\ IF ~input_path.exists
     THEN /\ cerr' = Append(cerr, "Input file:")
          /\ pc' = "done"
          /\ exit_code' = RETURN_MINUS_ONE
          /\ UNCHANGED sol04
     ELSE /\ sol04' = [sol04 EXCEPT !.inpfile = open_stream(input_path.content)]
          /\ pc' = "s04_get_index"
          /\ UNCHANGED <<cerr, exit_code>>
  /\ UNCHANGED <<frame04, cout, output_path, output_opened, lines_read>>

\* getIndexOfColumnName, and main's test of the index
S04_GetIndexOfColumnName ==
  /\ pc = "s04_get_index"
  /\ LET r == getline(sol04.inpfile, <<>>, NL)
         index == getIndexOfColumnName_loop(ParseLine(r.str), wanted_column, 0)
     IN /\ sol04' = [sol04 EXCEPT !.inpfile = r.stream, !.header = r.str, !.index = index]
        /\ IF index = -1
           THEN /\ cerr' = Append(cerr, "column name(")
                /\ pc' = "done"
                /\ exit_code' = RETURN_MINUS_ONE
           ELSE /\ pc' = "s04_open_output"
                /\ UNCHANGED <<cerr, exit_code>>
  /\ UNCHANGED <<frame04, cout, output_path, output_opened, lines_read>>

\* std::ofstream outfile(..., std::ios::out); outfile << header << "\n"
S04_OpenOutput ==
  /\ pc = "s04_open_output"
  /\ output_path' = [exists |-> TRUE, content |-> sol04.header \o <<NL>>]
  /\ output_opened' = TRUE
  /\ pc' = "s04_loop"
  /\ UNCHANGED <<frame04, cout, cerr, exit_code, lines_read, sol04>>

\* while (getline(inpfile, line)); at the end of the input main returns 0
S04_ReadLine ==
  /\ pc = "s04_loop"
  /\ LET r == getline(sol04.inpfile, sol04.line, NL)
     IN /\ sol04' = [sol04 EXCEPT !.inpfile = r.stream, !.line = r.str]
        /\ IF r.ok
           THEN /\ lines_read' = Append(lines_read, r.str)
                /\ pc' = "s04_row"
                /\ UNCHANGED exit_code
           ELSE /\ pc' = "done"
                /\ exit_code' = 0
                /\ UNCHANGED lines_read
  /\ UNCHANGED <<frame04, cout, cerr, output_path, output_opened>>

\* getFieldValueAtIndex, line.replace and the write of the line; the
\* runtime_error of getFieldValueAtIndex is caught at the end of main, which
\* prints it and returns 0
S04_ReplaceField ==
  /\ pc = "s04_row"
  /\ LET f == getFieldValueAtIndex(sol04.line, sol04.index)
         replaced == string_replace(sol04.line, f.offsetIndex, Len(f.word), wanted_value)
     IN IF f.thrown
        THEN /\ cerr' = Append(cerr, "could not find the index in the line.Invalid data.")
             /\ pc' = "done"
             /\ exit_code' = 0
             /\ UNCHANGED <<sol04, output_path>>
        ELSE /\ sol04' = [sol04 EXCEPT !.line = replaced]
             /\ output_path' = [output_path EXCEPT !.content = @ \o replaced \o <<NL>>]
             /\ pc' = "s04_loop"
             /\ UNCHANGED <<cerr, exit_code>>
  /\ UNCHANGED <<frame04, cout, output_opened, lines_read>>

Sol04Next ==
  \/ S04_CheckArgc
  \/ S04_OpenInput
  \/ S04_GetIndexOfColumnName
  \/ S04_OpenOutput
  \/ S04_ReadLine
  \/ S04_ReplaceField

SpecSol04 == ToolInit /\ [][Sol04Next]_vars

\* ============================================================ solution 05
\* what solution 05 never changes
frame05 ==
  <<cmdline, input_path, input_file, locals, cerr, run, output_before, first_result,
    sol01, sol02, sol03, sol04, sol06, sol07>>

\* split_if_all over a non-empty str: the offset of the first character, the
\* offset of every separator and the offset of the end, in order
split_if_all(str) ==
  LET seps == {k \in 0..(Len(str) - 1) : str[k + 1] = COMMA}
      RECURSIVE ascending(_, _)
      ascending(k, acc) ==
        IF k >= Len(str) THEN acc
        ELSE ascending(k + 1, IF k \in seps THEN Append(acc, k) ELSE acc)
  IN IF Len(str) = 0 THEN <<>>
     ELSE <<0>> \o ascending(0, <<>>) \o <<Len(str)>>

\* the lambda that split_into_fields applies to adjacent split points a, b
\* (start is the first split point, offset 0)
field_between(str, a, b) ==
  IF a = b THEN <<>>
  ELSE LET a2 == IF a # 0 THEN a + 1 ELSE a
       IN SubSeq(str, a2 + 1, b)

\* for_each_adjacent over the split points
RECURSIVE for_each_adjacent(_, _, _)
for_each_adjacent(str, splits, i) ==
  IF i + 1 > Len(splits) THEN <<>>
  ELSE <<field_between(str, splits[i], splits[i + 1])>>
         \o for_each_adjacent(str, splits, i + 1)

\* split_into_fields of a non-empty str.  For the empty str split_if_all
\* returns no split point and *std::begin(splits) reads the end of an empty
\* vector (undefined behaviour); the actions that split handle that case.
split_into_fields(str) ==
  IF Len(str) = 0 THEN <<>> ELSE for_each_adjacent(str, split_if_all(str), 1)

\* get_possibly_replaced_field: the optional that the action returns
get_possibly_replaced_field(action, replacement) ==
  IF action = "do_replace" THEN [has_value |-> TRUE, value |-> replacement]
  ELSE [has_value |-> FALSE, value |-> <<>>]

\* the items that the loop over limited_combine writes when it stops at the
\* end of the data fields only
RECURSIVE limited_combine_unlimited(_, _, _, _)
limited_combine_unlimited(data_fields, m_actions, i, replacement) ==
  IF i > Len(data_fields) THEN <<>>
  ELSE LET maybe_replaced ==
             get_possibly_replaced_field(IF i <= Len(m_actions) THEN m_actions[i]
                                         ELSE "no_replace", replacement)
       IN <<(IF maybe_replaced.has_value THEN maybe_replaced.value ELSE data_fields[i])>>
            \o limited_combine_unlimited(data_fields, m_actions, i + 1, replacement)

\* the items that the loop over limited_combine(data_fields, m_actions)
\* writes: the sentinel ends it when either iterator reaches its end
RECURSIVE limited_combine(_, _, _, _)
limited_combine(data_fields, m_actions, i, replacement) ==
  IF i > Len(data_fields) \/ i > Len(m_actions) THEN <<>>
  ELSE LET maybe_replaced == get_possibly_replaced_field(m_actions[i], replacement)
       IN <<(IF maybe_replaced.has_value THEN maybe_replaced.value ELSE data_fields[i])>>
            \o limited_combine(data_fields, m_actions, i + 1, replacement)

\* the separator before every item but the first, then the newline
RECURSIVE write_items(_, _)
write_items(items, i) ==
  IF i > Len(items) THEN <<NL>>
  ELSE (IF i > 1 THEN <<COMMA>> ELSE <<>>) \o items[i] \o write_items(items, i + 1)

\* if (argc < 5) { usage; return 1; }
S05_CheckArgc ==
  /\ pc = "start"
  /\ IF argc < 5
     THEN /\ cout' = Append(cout, "usage: a.out input column_name replacement output\n")
          /\ pc' = "done"
          /\ exit_code' = 1
     ELSE pc' = "s05_open_input" /\ UNCHANGED <<cout, exit_code>>
  /\ UNCHANGED <<frame05, output_path, output_opened, lines_read, sol05>>

\* std::ifstream ifs(argv[1]); if (!ifs) { "input file missing"; return 1; }
S05_OpenInput ==
  /\ pc = "s05_open_input"
  /\ IF ~input_path.exists
     THEN /\ cout' = Append(cout, "input file missing\n")
          /\ pc' = "done"
          /\ exit_code' = 1
          /\ UNCHANGED sol05
     ELSE /\ sol05' = [sol05 EXCEPT !.ifs = open_stream(input_path.content)]
          /\ pc' = "s05_construct"
          /\ UNCHANGED <<cout, exit_code>>
  /\ UNCHANGED <<frame05, output_path, output_opened, lines_read>>

\* CsvChanger::CsvChanger: the title line, its fields and one no_replace
\* action per field.  With an empty title line split has undefined behaviour:
\* the process is killed, or split returns no field and the constructor
\* throws, which main reports before it returns -1.
S05_Construct ==
  /\ pc = "s05_construct"
  /\ LET r == getline(sol05.ifs, <<>>, NL)
         m_fields_ == split_into_fields(r.str)
     IN \/ /\ Len(r.str) > 0
           /\ sol05' = [sol05 EXCEPT !.ifs = r.stream, !.m_titles = r.str,
                                     !.m_fields = m_fields_,
                                     !.m_actions = [i \in 1..Len(m_fields_) |-> "no_replace"]]
           /\ pc' = "s05_set_replacement_field"
           /\ UNCHANGED <<cout, exit_code>>
        \/ /\ Len(r.str) = 0
           /\ sol05' = [sol05 EXCEPT !.ifs = r.stream, !.m_titles = r.str]
           /\ cout' = Append(cout, "Failure with exception: No fields in csv file\n")
           /\ pc' = "done"
           /\ exit_code' = RETURN_MINUS_ONE
        \/ /\ Len(r.str) = 0
           /\ sol05' = [sol05 EXCEPT !.ifs = r.stream, !.m_titles = r.str]
           /\ pc' = "done"
           /\ exit_code' = SEGV_STATUS
           /\ UNCHANGED cout
  /\ UNCHANGED <<frame05, output_path, output_opened, lines_read>>

\* set_replacement_field: the first field equal to column_name gets the
\* do_replace action; main returns 1 when there is none
S05_SetReplacementField ==
  /\ pc = "s05_set_replacement_field"
  /\ LET it == find(sol05.m_fields, wanted_column)
     IN IF it = Len(sol05.m_fields)
        THEN /\ cout' = Append(cout, "column name doesn't exist in the input file\n")
             /\ pc' = "done"
             /\ exit_code' = 1
             /\ UNCHANGED sol05
        ELSE /\ sol05' = [sol05 EXCEPT !.m_actions[it + 1] = "do_replace"]
             /\ pc' = "s05_open_output"
             /\ UNCHANGED <<cout, exit_code>>
  /\ UNCHANGED <<frame05, output_path, output_opened, lines_read>>

\* std::ofstream out(argv[4]); output_modified_csv writes m_titles first
S05_OpenOutput ==
  /\ pc = "s05_open_output"
  /\ output_path' = [exists |-> TRUE, content |-> sol05.m_titles \o <<NL>>]
  /\ output_opened' = TRUE
  /\ pc' = "s05_loop"
  /\ UNCHANGED <<frame05, cout, exit_code, lines_read, sol05>>

\* while (m_input.good()): a data line is read and split; a line without
\* fields is passed over.  An empty data_line (an empty line, or no line left)
\* makes split undefined: the process is killed, or split returns no field.
\* When the stream is no longer good main returns 0.
S05_ReadLine ==
  /\ pc = "s05_loop"
  /\ LET good == ~sol05.ifs.eof /\ ~sol05.ifs.fail
         r == getline(sol05.ifs, <<>>, NL)
         read == [sol05 EXCEPT !.ifs = r.stream, !.data_line = r.str,
                               !.data_fields = split_into_fields(r.str),
                               !.emitted = <<>>]
     IN \/ /\ ~good
           /\ pc' = "done"
           /\ exit_code' = 0
           /\ UNCHANGED <<sol05, lines_read>>
        \/ /\ good
           /\ Len(r.str) > 0
           /\ sol05' = read
           /\ lines_read' = Append(lines_read, r.str)
           /\ pc' = "s05_row"
           /\ UNCHANGED exit_code
        \/ /\ good
           /\ Len(r.str) = 0
           /\ sol05' = read
           /\ lines_read' = IF r.ok THEN Append(lines_read, r.str) ELSE lines_read
           /\ UNCHANGED <<pc, exit_code>>
        \/ /\ good
           /\ Len(r.str) = 0
           /\ sol05' = [sol05 EXCEPT !.ifs = r.stream, !.data_line = r.str]
           /\ lines_read' = IF r.ok THEN Append(lines_read, r.str) ELSE lines_read
           /\ pc' = "done"
           /\ exit_code' = SEGV_STATUS
  /\ UNCHANGED <<frame05, cout, output_path, output_opened>>

\* the loop over limited_combine(data_fields, m_actions) and the newline
S05_WriteRow ==
  /\ pc = "s05_row"
  /\ LET items == limited_combine(sol05.data_fields, sol05.m_actions, 1, wanted_value)
     IN /\ sol05' = [sol05 EXCEPT !.emitted = items]
        /\ output_path' = [output_path EXCEPT !.content = @ \o write_items(items, 1)]
  /\ pc' = "s05_loop"
  /\ UNCHANGED <<frame05, cout, exit_code, output_opened, lines_read>>

Sol05Next ==
  \/ S05_CheckArgc
  \/ S05_OpenInput
  \/ S05_Construct
  \/ S05_SetReplacementField
  \/ S05_OpenOutput
  \/ S05_ReadLine
  \/ S05_WriteRow

SpecSol05 == ToolInit /\ [][Sol05Next]_vars

\* ============================================================ solution 06
\* what solution 06 never changes
frame06 ==
  <<cmdline, input_path, input_file, locals, cout, run, output_before, first_result,
    lines_read, sol01, sol02, sol03, sol04, sol05, sol07>>

\* index_of: the distance from begin to the position std::find returns
index_of(c, v) == find(c, v)

\* csv_io::take_head: the text before the first delimiter and the text after
\* it, or the whole text and the empty text when there is no delimiter
take_head(sv) ==
  LET pos == first_delim(sv, 1, COMMA)
  IN IF pos # 0
     THEN [head |-> SubSeq(sv, 1, pos - 1), tail |-> SubSeq(sv, pos + 1, Len(sv))]
     ELSE [head |-> sv, tail |-> <<>>]

\* the while loop of operator>>
RECURSIVE take_head_loop(_, _, _)
take_head_loop(head, tail, cols) ==
  IF Len(head) # 0 \/ Len(tail) # 0
  THEN LET t == take_head(tail)
       IN take_head_loop(t.head, t.tail, Append(cols, head))
  ELSE cols

\* operator>>(istream&, csv_io&): the stream, _readbuf and _cols afterwards,
\* whether the stream converts to true and whether csv_io::error was thrown
extract(is, readbuf) ==
  LET r == getline(is, readbuf, NL)
      t == take_head(r.str)
  IN IF r.ok
     THEN [stream |-> r.stream, readbuf |-> r.str,
           cols |-> take_head_loop(t.head, t.tail, <<>>), ok |-> TRUE, thrown |-> FALSE]
     ELSE [stream |-> r.stream, readbuf |-> r.str, cols |-> <<>>, ok |-> FALSE,
           thrown |-> ~r.stream.eof]

\* operator<<(ostream&, csv_io const&): the columns joined by "," and "\n"
RECURSIVE ostream_joiner(_, _)
ostream_joiner(cols, i) ==
  IF i > Len(cols) THEN <<>>
  ELSE (IF i > 1 THEN <<COMMA>> ELSE <<>>) \o cols[i] \o ostream_joiner(cols, i + 1)

insert_csv(cols) == ostream_joiner(cols, 1) \o <<NL>>

\* the stream of an std::ifstream whose file could not be opened
failed_stream == [buf |-> <<>>, pos |-> 1, eof |-> FALSE, fail |-> TRUE]

USAGE_STATUS == 255

\* if (argc != 5) { cerr << "Usage: ..."; return 255; }
S06_CheckArgc ==
  /\ pc = "start"
  /\ IF argc # 5
     THEN /\ cerr' = Append(cerr, "Usage: <infile> <column> <replacement> <outfile>\n")
          /\ pc' = "done"
          /\ exit_code' = USAGE_STATUS
     ELSE pc' = "s06_open_files" /\ UNCHANGED <<cerr, exit_code>>
  /\ UNCHANGED <<frame06, output_path, output_opened, sol06>>

\* ifstream ifs(infile.data()); ofstream ofs(outfile.data());
S06_OpenFiles ==
  /\ pc = "s06_open_files"
  /\ sol06' = [sol06 EXCEPT !.ifs = IF input_path.exists
                                    THEN open_stream(input_path.content)
                                    ELSE failed_stream]
  /\ output_path' = [exists |-> TRUE, content |-> <<>>]
  /\ output_opened' = TRUE
  /\ pc' = "s06_read_header"
  /\ UNCHANGED <<frame06, cerr, exit_code>>

\* what the handler of main's function-try-block does with csv_io::error;
\* main then flows off its end
S06_CaughtError ==
  /\ cerr' = Append(cerr, "input file missing\n")
  /\ pc' = "done"
  /\ exit_code' = 0

\* if (ifs >> csv) { N = index_of(csv, column); ofs << csv; ... }
S06_ReadHeader ==
  /\ pc = "s06_read_header"
  /\ LET r == extract(sol06.ifs, sol06.readbuf)
         read == [sol06 EXCEPT !.ifs = r.stream, !.readbuf = r.readbuf, !.cols = r.cols]
     IN IF r.thrown
        THEN /\ S06_CaughtError
             /\ sol06' = read
             /\ UNCHANGED output_path
        ELSE IF ~r.ok
        THEN /\ sol06' = read
             /\ pc' = "done"
             /\ exit_code' = 0
             /\ UNCHANGED <<cerr, output_path>>
        ELSE /\ sol06' = [read EXCEPT !.N = index_of(r.cols, wanted_column)]
             /\ output_path' = [output_path EXCEPT !.content = @ \o insert_csv(r.cols)]
             /\ pc' = "s06_loop"
             /\ UNCHANGED <<cerr, exit_code>>
  /\ UNCHANGED <<frame06, output_opened>>

\* while (ifs >> csv)
S06_ReadRow ==
  /\ pc = "s06_loop"
  /\ LET r == extract(sol06.ifs, sol06.readbuf)
     IN /\ sol06' = [sol06 EXCEPT !.ifs = r.stream, !.readbuf = r.readbuf, !.cols = r.cols]
        /\ IF r.thrown
           THEN S06_CaughtError
           ELSE IF ~r.ok
           THEN pc' = "done" /\ exit_code' = 0 /\ UNCHANGED cerr
           ELSE pc' = "s06_row" /\ UNCHANGED <<cerr, exit_code>>
  /\ UNCHANGED <<frame06, output_path, output_opened>>

\* csv[N] = replacement; ofs << csv;  _cols.at(N) throws std::out_of_range,
\* which the inner handler reports before main flows off its end
S06_WriteRow ==
  /\ pc = "s06_row"
  /\ IF sol06.N >= Len(sol06.cols)
     THEN /\ cerr' = Append(cerr, "column name doesn't exist in the input file\n")
          /\ pc' = "done"
          /\ exit_code' = 0
          /\ UNCHANGED <<sol06, output_path>>
     ELSE LET replaced == [sol06.cols EXCEPT ![sol06.N + 1] = wanted_value]
          IN /\ sol06' = [sol06 EXCEPT !.cols = replaced]
             /\ output_path' = [output_path EXCEPT !.content = @ \o insert_csv(replaced)]
             /\ pc' = "s06_loop"
             /\ UNCHANGED <<cerr, exit_code>>
  /\ UNCHANGED <<frame06, output_opened>>

Sol06Next ==
  \/ S06_CheckArgc
  \/ S06_OpenFiles
  \/ S06_ReadHeader
  \/ S06_ReadRow
  \/ S06_WriteRow

SpecSol06 == ToolInit /\ [][Sol06Next]_vars

\* ============================================================ solution 07
\* what solution 07 never changes
frame07 ==
  <<cmdline, input_path, input_file, locals, cerr, run, output_before, first_result,
    sol01, sol02, sol03, sol04, sol05, sol06>>

\* the value that "return -1" gives a std::optional<size_t>: size_t(-1), which
\* exceeds the length of every line (here the largest integer of the checker)
SIZE_MAX == 2147483647

\* replacer::detail::split: the text between the commas, the rest after the last
RECURSIVE detail_split(_, _)
detail_split(toSplit, firstComma) ==
  LET lastComma == first_delim(toSplit, firstComma + 1, COMMA)
  IN IF lastComma # 0
     THEN <<SubSeq(toSplit, firstComma + 1, lastComma - 1)>>
            \o detail_split(toSplit, lastComma)
     ELSE <<SubSeq(toSplit, firstComma + 1, Len(toSplit))>>

\* replacer::detail::index_of: a std::optional<size_t>; "return -1" converts
\* to an optional that holds size_t(-1)
detail_index_of(row, name) ==
  LET column == find(row, name)
  IN IF column # Len(row)
     THEN [has_value |-> TRUE, value |-> column]
     ELSE [has_value |-> TRUE, value |-> SIZE_MAX]

\* std::find over the iterators of a view: positions 1..Len, last = Len + 1
find_char(view, first, value) ==
  LET k == first_delim(view, first, value)
  IN IF k = 0 THEN Len(view) + 1 ELSE k

\* the while loop of find_nth_if
RECURSIVE find_nth_if_loop(_, _, _)
find_nth_if_loop(view, first, n) ==
  IF n > 0 /\ first # Len(view) + 1
  THEN LET found == find_char(view, first, COMMA)
       IN find_nth_if_loop(view, IF found # Len(view) + 1 THEN found + 1 ELSE found, n - 1)
  ELSE first

\* replacer::detail::find_nth_if with the predicate x == ','
find_nth_if(view, first, n) ==
  IF n <= 0 THEN Len(view) + 1 ELSE find_nth_if_loop(view, first, n)

\* replacer::detail::find_nth_delimited_by: start and end of the n-th field
find_nth_delimited_by(view, n) ==
  LET start == find_nth_if(view, 1, n)
  IN [start |-> start, end |-> find_char(view, start, COMMA)]

\* replacer::row::find_column_bounds
find_column_bounds(seq, n) == find_nth_delimited_by(seq, n)

\* replacer::row::replace
replace(input, begin_replace, end_replace, replacement) ==
  IF begin_replace = end_replace THEN input
  ELSE SubSeq(input, 1, begin_replace - 1) \o replacement
         \o SubSeq(input, end_replace, Len(input))

\* operator>>(istream&, std::string&), which std::istream_iterator uses:
\* leading whitespace is skipped, the word runs to the next whitespace
extract_word(stream) ==
  IF stream.eof \/ stream.fail
  THEN [stream |-> [stream EXCEPT !.fail = TRUE], str |-> <<>>, ok |-> FALSE]
  ELSE LET rest == {k \in stream.pos..Len(stream.buf) : stream.buf[k] # NL}
       IN IF rest = {}
          THEN [stream |-> [stream EXCEPT !.pos = Len(stream.buf) + 1,
                                          !.eof = TRUE, !.fail = TRUE],
                str |-> <<>>, ok |-> FALSE]
          ELSE LET b == CHOOSE k \in rest : \A j \in rest : k <= j
                   e == find_char(stream.buf, b, NL)
               IN [stream |-> [stream EXCEPT !.pos = e, !.eof = (e = Len(stream.buf) + 1)],
                   str |-> SubSeq(stream.buf, b, e - 1), ok |-> TRUE]

\* main's handler of std::exception
S07_Caught(what) ==
  /\ cout' = Append(cout, what)
  /\ pc' = "done"
  /\ exit_code' = 1

\* arguments::parse; if (!args) throw std::runtime_error("Invalid arguments")
S07_ParseArguments ==
  /\ pc = "start"
  /\ IF argc > 4
     THEN pc' = "s07_open_files" /\ UNCHANGED <<cout, exit_code>>
     ELSE S07_Caught("Invalid arguments\n")
  /\ UNCHANGED <<frame07, output_path, output_opened, lines_read, sol07>>

\* convert(arguments): open_file(args.input) and std::ofstream{args.output}
\* are arguments of one call, evaluated in either order; open_file throws
\* when the input cannot be opened
S07_OpenFiles ==
  /\ pc = "s07_open_files"
  /\ IF ~input_path.exists
     THEN /\ S07_Caught("input file missing\n")
          /\ \/ UNCHANGED <<output_path, output_opened>>
             \/ /\ output_path' = [exists |-> TRUE, content |-> <<>>]
                /\ output_opened' = TRUE
          /\ UNCHANGED sol07
     ELSE /\ sol07' = [sol07 EXCEPT !.csv = open_stream(input_path.content)]
          /\ output_path' = [exists |-> TRUE, content |-> <<>>]
          /\ output_opened' = TRUE
          /\ pc' = "s07_header"
          /\ UNCHANGED <<cout, exit_code>>
  /\ UNCHANGED <<frame07, lines_read>>

\* convert: headerRow is read and written, then find_column_with_text;
\* replacement_column_index throws when index_of returns no value
S07_Header ==
  /\ pc = "s07_header"
  /\ LET r == getline(sol07.csv, <<>>, NL)
         headerRow == IF r.ok THEN r.str ELSE <<>>
         index == detail_index_of(detail_split(headerRow, 0), wanted_column)
     IN /\ output_path' = [output_path EXCEPT !.content = @ \o headerRow \o <<NL>>]
        /\ IF index.has_value
           THEN /\ sol07' = [sol07 EXCEPT !.csv = r.stream, !.headerRow = headerRow,
                                          !.column_index = index.value]
                /\ pc' = "s07_loop"
                /\ UNCHANGED <<cout, exit_code>>
           ELSE /\ sol07' = [sol07 EXCEPT !.csv = r.stream, !.headerRow = headerRow]
                /\ S07_Caught("column name doesn't exists in the input file\n")
  /\ UNCHANGED <<frame07, output_opened, lines_read>>

\* transform_lines: the istream_iterator reads the next word; at the end of
\* the words convert returns and main returns 0
S07_ReadWord ==
  /\ pc = "s07_loop"
  /\ LET r == extract_word(sol07.csv)
     IN IF r.ok
        THEN /\ sol07' = [sol07 EXCEPT !.csv = r.stream, !.view = r.str]
             /\ lines_read' = Append(lines_read, r.str)
             /\ pc' = "s07_row"
             /\ UNCHANGED exit_code
        ELSE /\ sol07' = [sol07 EXCEPT !.csv = r.stream]
             /\ pc' = "done"
             /\ exit_code' = 0
             /\ UNCHANGED lines_read
  /\ UNCHANGED <<frame07, cout, output_path, output_opened>>

\* the lambda of convert and ostream_infix_iterator::operator=
S07_WriteRow ==
  /\ pc = "s07_row"
  /\ LET bounds == find_column_bounds(sol07.view, sol07.column_index)
         value == replace(sol07.view, bounds.start, bounds.end, wanted_value)
     IN /\ sol07' = [sol07 EXCEPT !.row = value, !.first = FALSE]
        /\ output_path' = [output_path EXCEPT !.content =
                             @ \o (IF ~sol07.first THEN <<NL>> ELSE <<>>) \o value]
  /\ pc' = "s07_loop"
  /\ UNCHANGED <<frame07, cout, exit_code, output_opened, lines_read>>

Sol07Next ==
  \/ S07_ParseArguments
  \/ S07_OpenFiles
  \/ S07_Header
  \/ S07_ReadWord
  \/ S07_WriteRow

SpecSol07 == ToolInit /\ [][Sol07Next]_vars

\* ============================================================ solution 02
\* what solution 02 never changes
frame02 ==
  <<cmdline, input_path, input_file, locals, cout, run, output_before, first_result,
    sol01, sol03, sol04, sol05, sol06, sol07>>

\* std::string_view::npos
npos == SIZE_MAX

\* std::string_view::find(DELIM, pos): the zero-based index of the first
\* delimiter at or after pos, npos when there is none or pos is past the end
sv_find(text, pos) ==
  IF pos > Len(text) THEN npos
  ELSE LET k == first_delim(text, pos + 1, COMMA)
       IN IF k = 0 THEN npos ELSE k - 1

\* csv_field::csv_field()
csv_field_end == [lineOfText |-> <<>>, startIndex |-> 0, endIndex |-> 0]

\* csv_field::csv_field(text, delim)
csv_field(text) ==
  [lineOfText |-> text, startIndex |-> 0, endIndex |-> sv_find(text, 0)]

\* csv_field::operator++(): std::size(delimiter) is 1
csv_field_increment(f) ==
  LET endIndex == IF f.endIndex # npos THEN f.endIndex + 1 ELSE f.endIndex
  IN [f EXCEPT !.startIndex = endIndex, !.endIndex = sv_find(f.lineOfText, endIndex)]

\* csv_field::operator==
csv_field_equal(f, other) ==
  \/ (f.startIndex = f.endIndex /\ other.startIndex = other.endIndex)
  \/ (/\ f.startIndex = other.startIndex
      /\ f.endIndex = other.endIndex
      /\ f.lineOfText = other.lineOfText)

\* csv_field::operator*
csv_field_dereference(f) ==
  IF f.endIndex = npos
  THEN SubSeq(f.lineOfText, f.startIndex + 1, Len(f.lineOfText))
  ELSE SubSeq(f.lineOfText, f.startIndex + 1, f.endIndex)

\* the std::vector constructor over the range [first, csv_field{})
RECURSIVE parse_line_loop(_, _)
parse_line_loop(first, out) ==
  IF csv_field_equal(first, csv_field_end) THEN out
  ELSE parse_line_loop(csv_field_increment(first), Append(out, csv_field_dereference(first)))

parse_line(text) == parse_line_loop(csv_field(text), <<>>)

\* index_of_header: the optional distance of the first header equal to
\* headerToFind, and the headers
index_of_header(line_, headerToFind) ==
  LET headers == parse_line(line_)
      loc == find(headers, headerToFind)
  IN [dist |-> IF loc # Len(headers) THEN [has_value |-> TRUE, value |-> loc]
               ELSE [has_value |-> FALSE, value |-> 0],
      headers |-> headers]

\* std::transform into the ostream joiner: the default field at hIndex, the
\* field itself elsewhere, DELIM between the items
RECURSIVE transform_fields(_, _, _, _)
transform_fields(fields, index, hIndex, defaultField) ==
  IF index >= Len(fields) THEN <<>>
  ELSE (IF index > 0 THEN <<COMMA>> ELSE <<>>)
         \o (IF hIndex = index THEN defaultField ELSE fields[index + 1])
         \o transform_fields(fields, index + 1, hIndex, defaultField)

EXIT_FAILURE == 1

\* the handler of main's function-try-block
S02_Throw(what) ==
  /\ cerr' = Append(cerr, what)
  /\ pc' = "done"
  /\ exit_code' = EXIT_FAILURE

\* if (argc != 5) throw std::invalid_argument{"invalid argument count"};
S02_CheckArgc ==
  /\ pc = "start"
  /\ IF argc # 5
     THEN S02_Throw("invalid argument count\n")
     ELSE pc' = "s02_open_input" /\ UNCHANGED <<cerr, exit_code>>
  /\ UNCHANGED <<frame02, output_path, output_opened, lines_read, sol02>>

\* !fs::exists(inputCSV), !inputFile
S02_OpenInput ==
  /\ pc = "s02_open_input"
  /\ IF ~input_path.exists
     THEN S02_Throw("input file missing\n") /\ UNCHANGED sol02
     ELSE /\ sol02' = [sol02 EXCEPT !.inputFile = open_stream(input_path.content)]
          /\ pc' = "s02_read_header"
          /\ UNCHANGED <<cerr, exit_code>>
  /\ UNCHANGED <<frame02, output_path, output_opened, lines_read>>

\* !std::getline(inputFile, line) || std::empty(line)
S02_ReadHeader ==
  /\ pc = "s02_read_header"
  /\ LET r == getline(sol02.inputFile, sol02.line, NL)
     IN /\ sol02' = [sol02 EXCEPT !.inputFile = r.stream, !.line = r.str]
        /\ IF ~r.ok \/ Len(r.str) = 0
           THEN S02_Throw("input file missing\n")
           ELSE pc' = "s02_index_of_header" /\ UNCHANGED <<cerr, exit_code>>
  /\ UNCHANGED <<frame02, output_path, output_opened, lines_read>>

\* auto const [hIndex, header] = index_of_header(line, argv[2]); !hIndex
S02_IndexOfHeader ==
  /\ pc = "s02_index_of_header"
  /\ LET r == index_of_header(sol02.line, wanted_column)
     IN /\ sol02' = [sol02 EXCEPT !.hIndex = r.dist, !.header = r.headers]
        /\ IF ~r.dist.has_value
           THEN S02_Throw("column name doesn't exist in the input file\n")
           ELSE pc' = "s02_open_output" /\ UNCHANGED <<cerr, exit_code>>
  /\ UNCHANGED <<frame02, output_path, output_opened, lines_read>>

\* std::ofstream outputFile{outputCSV}; the header is copied into the joiner
S02_OpenOutput ==
  /\ pc = "s02_open_output"
  /\ output_path' = [exists |-> TRUE,
                     content |-> transform_fields(sol02.header, 0, npos, <<>>) \o <<NL>>]
  /\ output_opened' = TRUE
  /\ pc' = "s02_loop"
  /\ UNCHANGED <<frame02, cerr, exit_code, lines_read, sol02>>

\* while (std::getline(inputFile, line)) { fields = parse_line(line); ...
S02_ReadRow ==
  /\ pc = "s02_loop"
  /\ LET r == getline(sol02.inputFile, sol02.line, NL)
     IN IF r.ok
        THEN /\ sol02' = [sol02 EXCEPT !.inputFile = r.stream, !.line = r.str,
                                       !.fields = parse_line(r.str)]
             /\ lines_read' = Append(lines_read, r.str)
             /\ pc' = "s02_row"
             /\ UNCHANGED exit_code
        ELSE /\ sol02' = [sol02 EXCEPT !.inputFile = r.stream, !.line = r.str]
             /\ pc' = "done"
             /\ exit_code' = 0
             /\ UNCHANGED lines_read
  /\ UNCHANGED <<frame02, cerr, output_path, output_opened>>

\* std::transform(fields, printer, ...); outputFile << '\n';
S02_WriteRow ==
  /\ pc = "s02_row"
  /\ LET text == transform_fields(sol02.fields, 0, sol02.hIndex.value, wanted_value)
                   \o <<NL>>
     IN /\ sol02' = [sol02 EXCEPT !.row_text = text]
        /\ output_path' = [output_path EXCEPT !.content = @ \o text]
  /\ pc' = "s02_loop"
  /\ UNCHANGED <<frame02, cerr, exit_code, output_opened, lines_read>>

Sol02Next ==
  \/ S02_CheckArgc
  \/ S02_OpenInput
  \/ S02_ReadHeader
  \/ S02_IndexOfHeader
  \/ S02_OpenOutput
  \/ S02_ReadRow
  \/ S02_WriteRow

SpecSol02 == ToolInit /\ [][Sol02Next]_vars

\* ------------------------------------------------- vocabulary of the claims
\* the pieces of text between consecutive occurrences of d (one more than
\* the number of occurrences)
RECURSIVE SplitOn(_, _)
SplitOn(text, d) ==
  LET k == first_delim(text, 1, d)
  IN IF k = 0 THEN <<text>>
     ELSE <<SubSeq(text, 1, k - 1)>> \o SplitOn(SubSeq(text, k + 1, Len(text)), d)

\* a field is a comma-delimited unit of a line
Fields(text) == SplitOn(text, COMMA)

CountOf(text, d) == Cardinality({k \in 1..Len(text) : text[k] = d})

\* the lines of a newline-terminated text file (the last line may lack its newline)
TextLines(text) ==
  LET p == SplitOn(text, NL)
  IN IF p[Len(p)] = <<>> THEN SubSeq(p, 1, Len(p) - 1) ELSE p

FirstLine(text) == SplitOn(text, NL)[1]
DataLines(text) == LET l == TextLines(text) IN SubSeq(l, 2, Len(l))
LastOf(s) == s[Len(s)]

Running == pc # "done"
Succeeded == pc = "done" /\ exit_code = 0
\* main has just run the loop body on the data line held in line
AfterBody == pc = "loop" /\ lines_read # <<>>
Accepted(l) == Len(split_line_into_tokens(l)) = number_of_columns
JustWritten == AfterBody /\ Accepted(line)

\* ------------------------------------------------------------------ claims
\* C1: a run that fails because the input file does not exist or because no
\* header token equals the requested column never opens the output file: the
\* output path is as it was before the run (absent, or with its old content).
C1_NoOutputOnFailure ==
  (pc = "done" /\ exit_code \in {NO_CSV_INPUT_FILE, NO_COLUMN_NAME})
    => (~output_opened /\ output_path = output_before)

C1_Witness ==
  /\ pc = "done"
  /\ exit_code = NO_COLUMN_NAME
  /\ column_names # <<>>
  /\ output_before.exists
  /\ output_path.content = StaleContent

\* C2 (as claimed): every data line written to the output has as many fields
\* (commas + 1) as the input line it comes from, the replacement value at the
\* target index and the input's field at every other position.
C2_SingleFieldReplaced ==
  JustWritten =>
    LET in == Fields(line)
        out == Fields(LastOf(TextLines(output_path.content)))
    IN /\ Len(out) = Len(in)
       /\ column_position + 1 \in 1..Len(out)
       /\ \A j \in 1..Len(in) :
             out[j] = IF j = column_position + 1 THEN wanted_value ELSE in[j]

\* C3: in every successful run the first line of the output is character for
\* character the first line of the input.
C3_HeaderPreserved ==
  Succeeded => /\ output_path.exists
               /\ FirstLine(output_path.content) = FirstLine(input_path.content)

\* a successful run whose header has an empty name, a duplicate name and a
\* trailing comma
C3_Witness ==
  /\ Succeeded
  /\ Len(column_line) >= 2
  /\ LastOf(column_line) = COMMA
  /\ \E i, j \in 1..Len(column_names) : i # j /\ column_names[i] = column_names[j]
  /\ \E i \in 1..Len(column_names) : column_names[i] = <<>>

\* C4 (as claimed): an existing but empty input file ends the run like a
\* missing one: "input file missing" is reported and NO_CSV_INPUT_FILE returned.
C4_EmptyInputIsMissingInput ==
  (pc = "done" /\ argc = NUMBER_OF_PARAMETERS + 1
     /\ input_path.exists /\ input_path.content = <<>>)
    => (exit_code = NO_CSV_INPUT_FILE /\ cerr = <<"input file missing\n">>)

\* C5: with a non-empty header line none of whose tokens equals the requested
\* column name, the run ends with NO_COLUMN_NAME having read the header line
\* only: no data line is read and nothing is written.
C5_UnknownColumn ==
  (/\ pc = "done"
   /\ argc = NUMBER_OF_PARAMETERS + 1
   /\ input_path.exists
   /\ FirstLine(input_path.content) # <<>>
   /\ \A k \in 1..Len(split_line_into_tokens(FirstLine(input_path.content))) :
         split_line_into_tokens(FirstLine(input_path.content))[k] # wanted_column)
    => /\ exit_code = NO_COLUMN_NAME
       /\ lines_read = <<>>
       /\ input_file.pos <= Len(FirstLine(input_path.content)) + 2
       /\ ~output_opened
       /\ output_path = output_before
       /\ cout = <<>>

\* the header is followed by data lines, one of its names has the requested
\* name as a proper prefix, and the run ended with NO_COLUMN_NAME
C5_Witness ==
  /\ pc = "done"
  /\ exit_code = NO_COLUMN_NAME
  /\ column_line # <<>>
  /\ DataLines(input_path.content) # <<>>
  /\ wanted_column = <<"a">>
  /\ \E k \in 1..Len(column_names) : column_names[k] = <<"a", "a">>
  /\ lines_read = <<>>

\* the output rows and the diagnostics that a sequence of data lines gives
Transformed(l) ==
  merge_tokens_into_line([split_line_into_tokens(l) EXCEPT ![column_position + 1] = wanted_value])

RECURSIVE RowsOf(_)
RowsOf(ls) ==
  IF ls = <<>> THEN <<>>
  ELSE (IF Accepted(ls[1]) THEN <<Transformed(ls[1])>> ELSE <<>>) \o RowsOf(Tail(ls))

RECURSIVE DiagnosticsOf(_)
DiagnosticsOf(ls) ==
  IF ls = <<>> THEN <<>>
  ELSE (IF Accepted(ls[1]) THEN <<>>
        ELSE <<(<<"skipping line: ", merge_tokens_into_line(split_line_into_tokens(ls[1]))>>)>>)
       \o DiagnosticsOf(Tail(ls))

\* C6: a data line whose token count differs from the header's is not written
\* and gets a "skipping line: " diagnostic, and processing continues: a run
\* that resolved the column ends with exit status 0, having read every data
\* line; the output's data rows are exactly the transformed lines with a
\* matching token count, in input order, so their number is the number of
\* data lines minus the number of skipped lines.
C6_SkipMalformedRows ==
  (pc = "done" /\ output_opened) =>
    /\ exit_code = 0
    /\ lines_read = DataLines(input_path.content)
    /\ TextLines(output_path.content) = <<column_line>> \o RowsOf(lines_read)
    /\ LastOf(output_path.content) = NL
    /\ cout = DiagnosticsOf(lines_read)
    /\ Len(TextLines(output_path.content)) - 1 = Len(lines_read) - Len(cout)

\* a skipped line lies between two written lines
C6_Witness ==
  /\ Succeeded
  /\ wanted_column = <<"a">>
  /\ wanted_value = <<"x">>
  /\ Len(lines_read) = 3
  /\ Accepted(lines_read[1])
  /\ ~Accepted(lines_read[2])
  /\ Accepted(lines_read[3])
  /\ Len(cout) = 1
  /\ Len(TextLines(output_path.content)) = 3

\* C7: the output of a successful run depends on the input and the arguments
\* only: a second run on the same input with the same arguments ends with the
\* same status and the same output file as the first, whatever the output
\* path held before either run.
C7_OutputFunctionOfInput ==
  (pc = "done" /\ run = "second" /\ (exit_code = 0 \/ first_result.exit_code = 0))
    => /\ exit_code = first_result.exit_code
       /\ output_path = first_result.output

\* the first run created the file, the second found longer stale content there
C7_Witness ==
  /\ Succeeded
  /\ wanted_column = <<"a">>
  /\ wanted_value = <<"x">>
  /\ run = "second"
  /\ ~first_result.before.exists
  /\ output_before.exists
  /\ output_before.content = StaleContent
  /\ Len(output_path.content) < Len(StaleContent)
  /\ Len(TextLines(output_path.content)) >= 2

ColumnResolved == pc \in {"open_output", "loop", "body"} \/ Succeeded

\* C8: the target index is the zero-based position of the first header token
\* equal to the column name, it is the same for every data row, and a written
\* row differs from its input tokens at that position only (later columns of
\* the same name keep their input values).
C8_FirstMatchingColumn ==
  /\ ColumnResolved =>
       /\ column_names = split_line_into_tokens(FirstLine(input_path.content))
       /\ column_position + 1 \in 1..Len(column_names)
       /\ column_names[column_position + 1] = wanted_column
       /\ \A j \in 1..column_position : column_names[j] # wanted_column
  /\ JustWritten =>
       /\ Len(tokens) = Len(split_line_into_tokens(line))
       /\ tokens[column_position + 1] = wanted_value
       /\ \A j \in 1..Len(tokens) :
             j # column_position + 1 => tokens[j] = split_line_into_tokens(line)[j]

\* a row was written under a header with two columns of the wanted name; the
\* later one kept an input value that differs from the replacement value
C8_Witness ==
  /\ JustWritten
  /\ wanted_column = <<"a">>
  /\ wanted_value = <<"x">>
  /\ \E j \in (column_position + 2)..Len(column_names) :
        /\ column_names[j] = wanted_column
        /\ tokens[j] = split_line_into_tokens(line)[j]
        /\ tokens[j] # wanted_value

\* C9 (as claimed): split_line_into_tokens returns n + 1 tokens for every
\* non-empty line with n commas (a trailing comma gives a trailing empty token).
C9_SplitStrictlyOnComma ==
  /\ pc = "find_column" =>
       (column_line # <<>> => /\ Len(column_names) = CountOf(column_line, COMMA) + 1
                              /\ column_names = Fields(column_line))
  /\ pc = "body" =>
       (line # <<>> => /\ Len(tokens) = CountOf(line, COMMA) + 1
                       /\ tokens = Fields(line))

RECURSIVE Join(_, _)
Join(seq, d) ==
  IF seq = <<>> THEN <<>>
  ELSE IF Len(seq) = 1 THEN seq[1]
  ELSE seq[1] \o <<d>> \o Join(Tail(seq), d)

Printed(stream, what) == \E i \in 1..Len(stream) : stream[i] = what

\* C11 (as claimed): a run of solution 01 that fails because the first line of
\* the input is empty or because the requested column is absent from the
\* header leaves the output path as it was: not created, not truncated.
C11_Sol01NoOutputOnFailure ==
  (/\ pc = "done"
   /\ \/ Printed(cout, "Input file missing")
      \/ Printed(cout, "Column name doesn't exist in the input file"))
    => (~output_opened /\ output_path = output_before)

\* C12 (as claimed): do_work writes a row whose token count exceeds the target
\* index as exactly one line: its tokens in order, a comma between consecutive
\* tokens and a newline after the last token only.
C12_Sol01RowIsOneLine ==
  (/\ pc = "s01_loop"
   /\ lines_read # <<>>
   /\ sol01.target_index < Len(split_string(sol01.buffer, COMMA)))
    => /\ sol01.tokens = [split_string(sol01.buffer, COMMA)
                            EXCEPT ![sol01.target_index + 1] = wanted_value]
       /\ sol01.row_text = Join(sol01.tokens, COMMA) \o <<NL>>
       /\ CountOf(sol01.row_text, NL) = 1

\* ---------------------------------------------------- claims, solution 03
\* C13 (as claimed): every failure that ensure detects in solution 03 ends the
\* process with a non-zero exit status.
C13_Sol03FailureExitsNonZero ==
  (pc = "done" /\ cerr # <<>>) => exit_code # 0

\* ---------------------------------------------------- claims, solution 04
\* C14 (as claimed): every data line that solution 04 writes is the input
\* line with exactly the characters of the field at the target index replaced
\* by the replacement value; every other character, commas included, is kept.
C14_Sol04OnlyTargetFieldReplaced ==
  (pc = "s04_loop" /\ lines_read # <<>>) =>
    LET in == Fields(LastOf(lines_read))
    IN /\ sol04.index + 1 \in 1..Len(in)
       /\ sol04.line = Join([in EXCEPT ![sol04.index + 1] = wanted_value], COMMA)
       /\ LastOf(TextLines(output_path.content)) = sol04.line

\* ---------------------------------------------------- claims, solution 05
Min(a, b) == IF a < b THEN a ELSE b
NonEmptyCount(ls) == Cardinality({i \in 1..Len(ls) : ls[i] # <<>>})

\* output_modified_csv has just dealt with a data line that has fields
S05_JustEmitted == pc = "s05_loop" /\ Len(sol05.data_fields) >= 1

\* C15: for a data line with at least one field output_modified_csv emits
\* exactly one row of min(fields of the line, header fields) items, the
\* replacement value at the selected column and the line's own field at every
\* other position; a line without fields adds no row.
C15_Sol05RowOfShorterLength ==
  /\ S05_JustEmitted =>
       LET selected == find(sol05.m_fields, wanted_column) + 1
       IN /\ Len(sol05.emitted) = Min(Len(sol05.data_fields), Len(sol05.m_fields))
          /\ \A i \in 1..Len(sol05.emitted) :
               sol05.emitted[i] = IF i = selected THEN wanted_value
                                  ELSE sol05.data_fields[i]
          /\ (\E i \in 1..Len(sol05.emitted) : i = selected)
               <=> Len(sol05.data_fields) >= selected
          /\ LastOf(TextLines(output_path.content)) = Join(sol05.emitted, COMMA)
  /\ pc = "s05_loop" =>
       Len(TextLines(output_path.content)) = 1 + NonEmptyCount(lines_read)

\* a row shorter than the header that ends before the selected column, after
\* an empty line that added no row
C15_Witness ==
  /\ S05_JustEmitted
  /\ Len(sol05.data_fields) < Len(sol05.m_fields)
  /\ find(sol05.m_fields, wanted_column) >= Len(sol05.data_fields)
  /\ sol05.emitted = sol05.data_fields
  /\ \E i \in 1..Len(lines_read) : lines_read[i] = <<>>

\* ---------------------------------------------------- claims, solution 06
\* C16 (as claimed): when the first line of the input is read successfully, a
\* run of solution 06 reports "column name doesn't exist in the input file"
\* if and only if no header field equals the requested column name.
C16_Sol06UnknownColumnReported ==
  (/\ pc = "done"
   /\ argc = 5
   /\ input_path.exists
   /\ input_path.content # <<>>)
  => (Printed(cerr, "column name doesn't exist in the input file\n")
        <=> CountOf(Fields(FirstLine(input_path.content)), wanted_column) = 0)


\* ---------------------------------------------------- claims, solution 07
\* C17 (as claimed): for every data row that has more fields than the
\* resolved column index, the row that solution 07 writes is the input row
\* with the field at that index replaced by the replacement value, whatever
\* the index (index 0 included) and whatever the field held (the empty field
\* included).
C17_Sol07FieldReplaced ==
  (/\ pc = "s07_loop"
   /\ ~sol07.first
   /\ CountOf(Fields(sol07.headerRow), wanted_column) > 0
   /\ Len(Fields(sol07.view)) > find(Fields(sol07.headerRow), wanted_column))
  => sol07.row =
       Join([Fields(sol07.view)
               EXCEPT ![find(Fields(sol07.headerRow), wanted_column) + 1] = wanted_value],
            COMMA)

\* C18 (as claimed): when no header field equals the requested column name,
\* solution 07 raises "column name doesn't exists in the input file", writes
\* no data row and exits with status 1.
C18_Sol07UnknownColumnFails ==
  (/\ pc = "done"
   /\ argc > 4
   /\ input_path.exists
   /\ CountOf(Fields(sol07.headerRow), wanted_column) = 0)
  => /\ Printed(cout, "column name doesn't exists in the input file\n")
     /\ exit_code = 1
     /\ output_path.content = sol07.headerRow \o <<NL>>


\* ------------------------------------------- claims, the run of Tool.cpp
\* the text of the rows that main writes for the lines ls
RECURSIVE RowsText(_)
RowsText(ls) ==
  IF ls = <<>> THEN <<>>
  ELSE (IF Accepted(ls[1]) THEN Transformed(ls[1]) \o <<NL>> ELSE <<>>) \o RowsText(Tail(ls))

\* the data lines whose loop body has run: every line read, but for the one
\* that was read and is about to be dealt with
Processed ==
  IF pc = "body" THEN SubSeq(lines_read, 1, Len(lines_read) - 1) ELSE lines_read

\* C19: the output file is opened only after the column has been resolved;
\* the header is written before any data line is read; each accepted row is
\* written before the next line is read: whenever main is about to read a
\* line, and when it has ended, the output is the header followed by the
\* transformed accepted rows among the lines read so far, and between a read
\* and its write only the row of the line just read is missing.
C19_EventOrder ==
  /\ output_opened =>
       /\ pc \in {"loop", "body", "done"}
       /\ column_position < Len(column_names)
       /\ column_names[column_position + 1] = wanted_column
       /\ output_path.content = column_line \o <<NL>> \o RowsText(Processed)
  /\ ~output_opened =>
       /\ lines_read = <<>>
       /\ output_path = output_before
  /\ pc \in {"loop", "done"} /\ output_opened =>
       output_path.content = column_line \o <<NL>> \o RowsText(lines_read)

\* an accepted row has been written and the next accepted line has been read
\* and not yet written
C19_Witness ==
  /\ pc = "body"
  /\ Len(lines_read) = 2
  /\ Accepted(lines_read[1])
  /\ Accepted(lines_read[2])
  /\ wanted_value = <<"x">>
  /\ output_path.content = column_line \o <<NL>> \o Transformed(lines_read[1]) \o <<NL>>

\* C20: every run terminates: it reaches the end with exit status 0 (only at
\* the end of the input) or 1, 2 or 3; the lines read are the data lines of
\* the input, each once and in order, every read moving the stream forward;
\* after a failure exit nothing is read or written any more.
C20_RunTerminates ==
  /\ <>(pc = "done" /\ exit_code \in {0, NOT_ENOUGH_PARAMETERS, NO_CSV_INPUT_FILE, NO_COLUMN_NAME})
  /\ [](Succeeded => input_file.eof /\ lines_read = DataLines(input_path.content))
  /\ [](pc # "start" /\ input_path.exists /\ Len(lines_read) > 0 =>
          lines_read = SubSeq(DataLines(input_path.content), 1, Len(lines_read)))
  /\ [][/\ lines_read' # lines_read =>
             /\ input_file'.pos > input_file.pos
             /\ Len(lines_read') = Len(lines_read) + 1
        /\ (pc = "done" /\ exit_code # 0) =>
             UNCHANGED <<input_file, lines_read, output_path, cout, cerr, pc, exit_code>>]_vars

\* a run that ended at the end of an input of three data lines
C20_Witness ==
  /\ Succeeded
  /\ input_file.eof
  /\ Len(lines_read) = 3


\* ---------------------------------------------------- claims, solution 02
\* C21 (as claimed): parse_line returns every comma-delimited field of the
\* line in order: a line with n commas gives n + 1 fields, empty fields at
\* the start, in the middle and at the end included, and the fields joined
\* with commas give back the line.
C21_Sol02ParseLineAllFields ==
  pc = "s02_row" =>
    /\ Len(sol02.fields) = CountOf(sol02.line, COMMA) + 1
    /\ Join(sol02.fields, COMMA) = sol02.line


\* C22 (as claimed): split_into_fields returns, for every non-empty line with
\* n separators, exactly n + 1 fields in order, none of which contains the
\* separator, also when the line starts with the separator or has consecutive
\* or trailing separators.
C22_Sol05SplitAllFields ==
  (pc = "s05_row" /\ Len(sol05.data_line) > 0) =>
    /\ Len(sol05.data_fields) = CountOf(sol05.data_line, COMMA) + 1
    /\ \A i \in 1..Len(sol05.data_fields) : CountOf(sol05.data_fields[i], COMMA) = 0
    /\ sol05.data_fields = Fields(sol05.data_line)


\* ---------------------------------------------------- claims, solution 03
\* a data line with as many comma-delimited fields as the header
S03_WellFormed(l) == Len(Fields(l)) = sol03.total_fields

\* the row expected for a well-formed data line
S03_Expected(l) ==
  Join([Fields(l) EXCEPT ![sol03.nfield + 1] = wanted_value], COMMA) \o <<NL>>

RECURSIVE S03_ExpectedRows(_)
S03_ExpectedRows(ls) ==
  IF ls = <<>> THEN <<>> ELSE S03_Expected(ls[1]) \o S03_ExpectedRows(Tail(ls))

\* solution 03 stopped at a malformed row
S03_Stopped == pc = "done" /\ Printed(cerr, ": error in csv file.")

\* the data lines read that came before the one in hand or the one that stopped the run
S03_Before ==
  IF pc = "s03_row" \/ S03_Stopped
  THEN SubSeq(lines_read, 1, Len(lines_read) - 1) ELSE lines_read

\* C23: a malformed row is fatal in solution 03: the lines read are the data
\* lines of the input up to the first line whose field count differs from the
\* header's (an empty line counts as one field); there processing stops, and
\* the output is the header followed by exactly the transformed rows that
\* precede that line: no later row is read or written.
C23_Sol03MalformedRowFatal ==
  output_opened =>
    /\ lines_read = SubSeq(DataLines(input_path.content), 1, Len(lines_read))
    /\ \A i \in 1..Len(S03_Before) : S03_WellFormed(S03_Before[i])
    /\ output_path.content =
         FirstLine(input_path.content) \o <<NL>> \o S03_ExpectedRows(S03_Before)
    /\ S03_Stopped => ~S03_WellFormed(LastOf(lines_read))
    /\ (pc = "done" /\ ~S03_Stopped) => lines_read = DataLines(input_path.content)

\* the run stopped at the second data line, one row was written before it and
\* a well-formed line after it was never read
C23_Witness ==
  /\ S03_Stopped
  /\ Len(lines_read) = 2
  /\ Len(DataLines(input_path.content)) = 3
  /\ S03_WellFormed(DataLines(input_path.content)[3])
  /\ Len(TextLines(output_path.content)) = 2


\* C24: parseCSV followed by writeCSV is the identity on lines: for the header
\* and for every data line read (empty, or with leading, consecutive or
\* trailing commas) parseCSV yields commas + 1 fields, never none, so that
\* fields.size() - 1 is an index of the vector, and writeCSV of those fields
\* is the line followed by one newline.
C24_Sol03ParseWriteRoundTrip ==
  /\ pc = "s03_row" =>
       /\ sol03.fields = parseCSV(sol03.buffer)
       /\ Len(sol03.fields) = CountOf(sol03.buffer, COMMA) + 1
       /\ Len(sol03.fields) - 1 \in 0..(Len(sol03.fields) - 1)
       /\ writeCSV(sol03.fields) = sol03.buffer \o <<NL>>
  /\ pc = "s03_open_output" =>
       /\ sol03.total_fields = CountOf(sol03.buffer, COMMA) + 1
       /\ sol03.total_fields >= 1
  /\ (pc = "s03_loop" /\ lines_read = <<>>) =>
       output_path.content = FirstLine(input_path.content) \o <<NL>>

\* a data line of two commas: a leading, a middle and a trailing empty field
C24_Witness ==
  /\ pc = "s03_row"
  /\ sol03.buffer = <<COMMA, COMMA>>
  /\ sol03.fields = <<(<<>>), (<<>>), (<<>>)>>
  /\ \E i \in 1..Len(lines_read) : lines_read[i] = <<>>


\* C25 (as claimed): every write tokens[target_index] in do_work of solution
\* 01 is within the bounds of the row's token vector, for every data line of
\* every input whose header contains the requested column.
C25_Sol01IndexInBounds ==
  pc = "s01_row" =>
    /\ sol01.target_index >= 0
    /\ sol01.target_index < Len(sol01.tokens)

\* C26: at every assignment tokens[column_position] = wanted_value of Tool.cpp
\* the index is in bounds, 0 <= column_position < tokens.size(): the
\* assignment is reached only for a row with as many tokens as the header,
\* and the column position was found inside the header.
C26_ToolIndexInBounds ==
  /\ (pc = "body" /\ Len(tokens) = number_of_columns) =>
       /\ 0 <= column_position
       /\ column_position < Len(tokens)
  /\ pc \in {"open_output", "loop", "body"} =>
       /\ number_of_columns = Len(column_names)
       /\ column_position < number_of_columns
       /\ column_names[column_position + 1] = wanted_column

\* the assignment is about to write the last token of a row of two tokens
C26_Witness ==
  /\ pc = "body"
  /\ Len(tokens) = number_of_columns
  /\ Len(tokens) = 2
  /\ column_position = 1


\* C27 (as claimed): the output of a successful run is a fixed point of the
\* tool: run again on that output with the same column name and the same
\* replacement value, the tool succeeds and writes a file identical to its
\* input, with no row skipped.
C27_OutputIsFixedPoint ==
  (pc = "done" /\ run = "on_output") =>
    /\ exit_code = 0
    /\ output_path.content = input_path.content
    /\ cout = <<>>


TypeOK ==
  /\ pc \in {"start", "check_input", "read_header", "find_column", "open_output",
             "loop", "body", "done"}
  /\ exit_code \in -1..3
  /\ run \in {"first", "second", "on_output"}
====
